---- MODULE Spec2Model ----
(***************************************************************************)
(* JanetHelper: a setuid-root helper that runs a shell command, changes a  *)
(* file's permission bits or changes a file's owner on behalf of its       *)
(* caller (src/JanetHelper/JanetHelper.c).                                 *)
(*                                                                         *)
(* Each invocation of the helper is a process p.  Its position in main()   *)
(* and in the functions main() calls is pc[p]; log_message is modelled at  *)
(* the granularity of its system calls (fopen, the write() calls stdio     *)
(* issues, fclose, syslog) because the log file is shared by concurrent    *)
(* invocations.  C strings are sequences of one-character strings.         *)
(***************************************************************************)
EXTENDS Integers, Sequences, FiniteSets, TLC

VARIABLES
    euid,        \* geteuid() of each invocation
    ruid,        \* getuid() of each invocation
    argv,        \* argv of each invocation (argc = Len(argv[p]))
    pc,          \* position of each invocation in the code
    ret,         \* position log_message returns to
    msg,         \* argument of the log_message call in progress
    caller_uid,  \* main(): caller_uid
    decision,    \* value of is_authorized(caller_uid): "none", "Allow", "Deny"
    request,     \* the call main() dispatches: <<fn, args...>>
    result,      \* return value of the dispatched function
    exitStatus,  \* status seen by the parent, NoStatus until exit
    calls,       \* privileged primitives invoked so far: system, chmod, chown
    stderr,      \* lines written to stderr
    trace,       \* the steps of the run, in order
    logfile,     \* /var/log/JanetHelper.log: the write() calls that reached it
    syslogv,     \* entries sent to syslog
    log_file,    \* log_message(): the FILE* ("NULL" or "open")
    unwritten,   \* bytes of the current entry not yet passed to write()
    nlog,        \* number of log_message calls started
    logFault,    \* some fopen or write of this invocation failed
    logState,    \* environment: "ok", "unopenable" (fopen fails), "full" (write fails)
    fs           \* the file system: path -> [mode, uid, gid]

inputs  == <<euid, ruid, argv>>
control == <<pc, ret, msg>>
locals  == <<caller_uid, decision, request, result, exitStatus>>
effects == <<calls, stderr, trace>>
logvars == <<logfile, syslogv, log_file, unwritten, nlog, logFault>>
vars    == <<inputs, control, locals, effects, logvars, logState, fs>>

-----------------------------------------------------------------------------
(* Bounds and program constants *)

NumProcs    == 2       \* invocations that may run concurrently
BUFFER_SIZE == 4096    \* #define BUFFER_SIZE
StdioBufSize == 4096   \* size of the buffer fopen gives the FILE (st_blksize)
TimeStampLen == 19     \* strftime "%Y-%m-%d %H:%M:%S"
NoStatus    == -1      \* the process has not exited

Procs == 1 .. NumProcs

Min(a, b) == IF a < b THEN a ELSE b

-----------------------------------------------------------------------------
(* C strings *)

Prog     == <<"J","a","n","e","t","H","e","l","p","e","r">>
S_exec   == <<"e","x","e","c">>
S_chmod  == <<"c","h","m","o","d">>
S_chown  == <<"c","h","o","w","n">>
S_rm     == <<"r","m">>
C_true   == <<"t","r","u","e">>
C_false  == <<"f","a","l","s","e">>
C_rm_rf  == <<"r","m"," ","-","r","f"," ","/">>
\* A command line of BUFFER_SIZE characters; its characters are not spelled out.
LongCommand == <<"a","a","a",".",".",".">>
M_755    == <<"7","5","5">>
M_zzz    == <<"z","z","z">>
M_9      == <<"9">>
M_10755  == <<"1","0","7","5","5">>
U_1000   == <<"1","0","0","0">>
U_minus1 == <<"-","1">>
U_abc    == <<"a","b","c">>
P_tmp_f  == <<"/","t","m","p","/","f">>
P_shadow == <<"/","e","t","c","/","s","h","a","d","o","w">>
P_nofile == <<"/","n","o","f","i","l","e">>
P_empty  == <<>>

strlen(s) == IF s = LongCommand THEN BUFFER_SIZE ELSE Len(s)

Digits == <<"0","1","2","3","4","5","6","7","8","9">>
IsDigit(c, base) == \E i \in 1 .. base : Digits[i] = c
DigitVal(c) == (CHOOSE i \in 1 .. 10 : Digits[i] = c) - 1
isspace(c) == c \in {" ", "\t", "\n"}

RECURSIVE SkipSpace(_)
SkipSpace(s) == IF s # <<>> /\ isspace(Head(s)) THEN SkipSpace(Tail(s)) ELSE s

\* The value of the longest prefix of s made of digits of the base, from acc.
RECURSIVE ParseDigits(_, _, _)
ParseDigits(s, base, acc) ==
    IF s # <<>> /\ IsDigit(Head(s), base)
    THEN ParseDigits(Tail(s), base, acc * base + DigitVal(Head(s)))
    ELSE acc

\* strtol(s, NULL, base) and atoi(s): white space, an optional sign, then
\* digits up to the first character that is not one; 0 when there is none.
ParseInt(s, base) ==
    LET t == SkipSpace(s)
        neg == t # <<>> /\ Head(t) = "-"
        u == IF t # <<>> /\ Head(t) \in {"-", "+"} THEN Tail(t) ELSE t
        v == ParseDigits(u, base, 0)
    IN IF neg THEN 0 - v ELSE v

strtol(s, base) == ParseInt(s, base)
atoi(s) == ParseInt(s, 10)

\* snprintf(log_buffer, BUFFER_SIZE, fmt, arg): the length of the message
\* left in log_buffer, the format's fixed text plus the argument, truncated.
snprintf(fixedLen, argLen) == Min(fixedLen + argLen, BUFFER_SIZE - 1)

\* One line of the log file: "[%s] %s\n".
EntryLen(m) == 1 + TimeStampLen + 2 + m.len + 1

-----------------------------------------------------------------------------
(* is_authorized, the primitives and their environment *)

is_authorized(uid) == TRUE

\* system(command): -1 when no child could be created, else the wait status
\* of the shell, its exit code in bits 8..15: 0 for "true", 1 for "false",
\* 127 when the shell finds no such command, either of 0 and 1 otherwise.
ExitCodes(cmd) ==
    IF cmd = C_true THEN {0}
    ELSE IF cmd = C_false THEN {1}
    ELSE IF cmd = LongCommand THEN {127}
    ELSE {0, 1}
SystemResults(cmd) == {-1} \cup {256 * e : e \in ExitCodes(cmd)}

\* chmod(path, mode) by root: ENOENT for a path that does not exist, else the
\* file's permission bits become the low twelve bits of mode.
chmodResult(f, path, mode) == IF path \in DOMAIN f THEN 0 ELSE -1
chmodFs(f, path, mode) ==
    IF path \in DOMAIN f
    THEN [f EXCEPT ![path].mode = mode % 4096]
    ELSE f

\* chown(path, uid, gid) by root: ENOENT for a path that does not exist; an id
\* of (uid_t)-1 leaves that id unchanged.  uid_t values are written as the
\* int with the same 32 bits.
chownResult(f, path, uid, gid) == IF path \in DOMAIN f THEN 0 ELSE -1
chownFs(f, path, uid, gid) ==
    IF path \in DOMAIN f
    THEN [f EXCEPT ![path].uid = IF uid = -1 THEN @ ELSE uid,
                   ![path].gid = IF gid = -1 THEN @ ELSE gid]
    ELSE f

\* The status the parent sees: the low eight bits of main's return value.
ExitCode(r) == r % 256

\* The line each failure path prints on stderr after its log_message call.
StderrLine(text) ==
    CASE text = "Error: No command specified" -> "Usage: %s <command> [args...]"
      [] text = "Error: No command to execute specified" -> "Usage: %s exec <command>"
      [] text = "Error: Missing arguments for chmod" -> "Usage: %s chmod <mode> <path>"
      [] text = "Error: Missing arguments for chown" -> "Usage: %s chown <uid> <gid> <path>"
      [] OTHER -> text

-----------------------------------------------------------------------------
(* Inputs and initial states *)

\* (real uid, effective uid): root itself, a user running the setuid-root
\* binary, and a user running a binary that is not setuid.
Creds == { <<0, 0>>, <<501, 0>>, <<501, 501>> }

Argvs ==
    { <<Prog>>,
      <<Prog, S_rm>>,
      <<Prog, S_exec>>,
      <<Prog, S_exec, C_true>>,
      <<Prog, S_exec, C_false>>,
      <<Prog, S_exec, C_rm_rf>>,
      <<Prog, S_exec, LongCommand>>,
      <<Prog, S_chmod, M_755>>,
      <<Prog, S_chmod, M_755, P_tmp_f>>,
      <<Prog, S_chmod, M_755, P_nofile>>,
      <<Prog, S_chmod, M_755, P_empty>>,
      <<Prog, S_chmod, M_zzz, P_tmp_f>>,
      <<Prog, S_chmod, M_9, P_tmp_f>>,
      <<Prog, S_chmod, M_10755, P_tmp_f>>,
      <<Prog, S_chown, U_1000, U_1000>>,
      <<Prog, S_chown, U_1000, U_1000, P_shadow>>,
      <<Prog, S_chown, U_1000, U_1000, P_nofile>>,
      <<Prog, S_chown, U_minus1, U_minus1, P_tmp_f>>,
      <<Prog, S_chown, U_abc, U_1000, P_tmp_f>> }

\* Concurrent invocations: the setuid-root binary run by a user with an
\* unknown command, a short and a long one; each appends one entry.
ConcCreds == { <<501, 0>> }
ConcArgvs == { <<Prog, S_rm>>, <<Prog, LongCommand>> }

LogStates == {"ok", "unopenable", "full"}

InitialFs ==
    (P_tmp_f :> [mode |-> 420, uid |-> 501, gid |-> 20]) @@
    (P_shadow :> [mode |-> 416, uid |-> 0, gid |-> 0])

NoMsg == [text |-> "", len |-> 0]

\* The invocations in `running` have just entered main(); the others are
\* never started.
InitWith(running, creds, argvs, logStates) ==
    /\ \E c \in [running -> creds], a \in [running -> argvs] :
          /\ ruid = [p \in Procs |-> IF p \in running THEN c[p][1] ELSE 0]
          /\ euid = [p \in Procs |-> IF p \in running THEN c[p][2] ELSE 0]
          /\ argv = [p \in Procs |-> IF p \in running THEN a[p] ELSE <<Prog>>]
    /\ pc = [p \in Procs |-> IF p \in running THEN "start" ELSE "idle"]
    /\ ret = [p \in Procs |-> "idle"]
    /\ msg = [p \in Procs |-> NoMsg]
    /\ caller_uid = [p \in Procs |-> 0]
    /\ decision = [p \in Procs |-> "none"]
    /\ request = [p \in Procs |-> <<>>]
    /\ result = [p \in Procs |-> 0]
    /\ exitStatus = [p \in Procs |-> NoStatus]
    /\ calls = [p \in Procs |-> <<>>]
    /\ stderr = [p \in Procs |-> <<>>]
    /\ trace = [p \in Procs |-> IF p \in running THEN <<"Start">> ELSE <<>>]
    /\ logfile = <<>>
    /\ syslogv = <<>>
    /\ log_file = [p \in Procs |-> "NULL"]
    /\ unwritten = [p \in Procs |-> 0]
    /\ nlog = [p \in Procs |-> 0]
    /\ logFault = [p \in Procs |-> FALSE]
    /\ logState \in logStates
    /\ fs = InitialFs

-----------------------------------------------------------------------------
(* log_message *)

\* The call log_message(text), text being len characters long; control
\* returns to `back`.
LogCall(p, text, len, back) ==
    /\ msg' = [msg EXCEPT ![p] = [text |-> text, len |-> len]]
    /\ ret' = [ret EXCEPT ![p] = back]
    /\ pc' = [pc EXCEPT ![p] = "log_fopen"]

\* write(fd, buf, n) on the descriptor opened with O_APPEND: the n bytes go
\* to the end of the file in one piece, or nowhere when the disk is full.
Write(p, n) ==
    IF logState = "full"
    THEN /\ logFault' = [logFault EXCEPT ![p] = TRUE]
         /\ logfile' = logfile
    ELSE /\ logfile' = Append(logfile,
                [pid |-> p, n |-> nlog[p], text |-> msg[p].text,
                 off |-> EntryLen(msg[p]) - unwritten[p], len |-> n,
                 total |-> EntryLen(msg[p])])
         /\ logFault' = logFault

\* log_message opening the file with "w": the file is emptied.
LogFopenTruncating(p) ==
    /\ pc[p] = "log_fopen"
    /\ nlog' = [nlog EXCEPT ![p] = @ + 1]
    /\ IF logState = "unopenable"
       THEN /\ log_file' = [log_file EXCEPT ![p] = "NULL"]
            /\ logFault' = [logFault EXCEPT ![p] = TRUE]
            /\ unwritten' = unwritten
            /\ logfile' = logfile
            /\ pc' = [pc EXCEPT ![p] = "log_syslog"]
       ELSE /\ log_file' = [log_file EXCEPT ![p] = "open"]
            /\ logFault' = logFault
            /\ unwritten' = [unwritten EXCEPT ![p] = EntryLen(msg[p])]
            /\ logfile' = <<>>
            /\ pc' = [pc EXCEPT ![p] = "log_fprintf"]
    /\ UNCHANGED <<inputs, ret, msg, locals, effects, syslogv, logState, fs>>

\* FILE *log_file = fopen(LOG_FILE, "a"); if (log_file) ...
LogFopen(p) ==
    /\ pc[p] = "log_fopen"
    /\ nlog' = [nlog EXCEPT ![p] = @ + 1]
    /\ IF logState = "unopenable"
       THEN /\ log_file' = [log_file EXCEPT ![p] = "NULL"]
            /\ logFault' = [logFault EXCEPT ![p] = TRUE]
            /\ unwritten' = unwritten
            /\ pc' = [pc EXCEPT ![p] = "log_syslog"]
       ELSE /\ log_file' = [log_file EXCEPT ![p] = "open"]
            /\ logFault' = logFault
            /\ unwritten' = [unwritten EXCEPT ![p] = EntryLen(msg[p])]
            /\ pc' = [pc EXCEPT ![p] = "log_fprintf"]
    /\ UNCHANGED <<inputs, ret, msg, locals, effects, logfile, syslogv, logState, fs>>

\* fprintf(log_file, "[%s] %s\n", time_str, message): the line goes to the
\* FILE's buffer, and each time the buffer overflows stdio writes it out.
LogFprintf(p) ==
    /\ pc[p] = "log_fprintf"
    /\ IF unwritten[p] > StdioBufSize
       THEN /\ Write(p, StdioBufSize)
            /\ unwritten' = [unwritten EXCEPT ![p] = @ - StdioBufSize]
            /\ pc' = [pc EXCEPT ![p] =
                        IF unwritten[p] - StdioBufSize > StdioBufSize
                        THEN "log_fprintf" ELSE "log_fclose"]
       ELSE /\ UNCHANGED <<logfile, logFault, unwritten>>
            /\ pc' = [pc EXCEPT ![p] = "log_fclose"]
    /\ UNCHANGED <<inputs, ret, msg, locals, effects, syslogv, log_file, nlog, logState, fs>>

\* fclose(log_file): what is left in the buffer is written out.
LogFclose(p) ==
    /\ pc[p] = "log_fclose"
    /\ Write(p, unwritten[p])
    /\ unwritten' = [unwritten EXCEPT ![p] = 0]
    /\ log_file' = [log_file EXCEPT ![p] = "NULL"]
    /\ pc' = [pc EXCEPT ![p] = "log_syslog"]
    /\ UNCHANGED <<inputs, ret, msg, locals, effects, syslogv, nlog, logState, fs>>

\* syslog(LOG_NOTICE, "%s", message); and the return of log_message.
LogSyslog(p) ==
    /\ pc[p] = "log_syslog"
    /\ syslogv' = Append(syslogv, [pid |-> p, n |-> nlog[p], text |-> msg[p].text])
    /\ pc' = [pc EXCEPT ![p] = ret[p]]
    /\ UNCHANGED <<inputs, ret, msg, locals, effects, logfile, log_file, unwritten,
                   nlog, logFault, logState, fs>>

\* The environment: the log file becomes unopenable, the disk fills up, or
\* the fault clears.
EnvChange ==
    /\ \E s \in LogStates \ {logState} : logState' = s
    /\ UNCHANGED <<inputs, control, locals, effects, logvars, fs>>

-----------------------------------------------------------------------------
(* main and the functions it dispatches to *)

\* The number of characters printf writes for n in the given base.
RECURSIVE NumLen(_, _)
NumLen(n, base) ==
    IF n < 0 THEN 1 + NumLen(0 - n, base)
    ELSE IF n < base THEN 1
    ELSE 1 + NumLen(n \div base, base)

Goto(p, label) ==
    /\ pc' = [pc EXCEPT ![p] = label]
    /\ UNCHANGED <<ret, msg>>

Step(p, event) == trace' = [trace EXCEPT ![p] = Append(@, event)]

\* log_message(text) for a string literal.
LogLiteral(p, text, back) == LogCall(p, text, Len(text), back)

\* The root check without its return: the error is logged and main goes on.
CheckRootNoReturn(p) ==
    /\ pc[p] = "start"
    /\ IF euid[p] # 0
       THEN LogLiteral(p, "Error: JanetHelper must be run as root", "auth")
       ELSE Goto(p, "auth")
    /\ UNCHANGED <<inputs, locals, effects, logvars, logState, fs>>

\* if (geteuid() != 0) { log_message(...); fprintf(stderr, ...); return 1; }
CheckRoot(p) ==
    /\ pc[p] = "start"
    /\ IF euid[p] # 0
       THEN LogLiteral(p, "Error: JanetHelper must be run as root", "fail")
       ELSE Goto(p, "auth")
    /\ UNCHANGED <<inputs, locals, effects, logvars, logState, fs>>

\* The authorization check with caller_uid = geteuid().
CheckAuthorizedEffective(p) ==
    /\ pc[p] = "auth"
    /\ caller_uid' = [caller_uid EXCEPT ![p] = euid[p]]
    /\ IF is_authorized(euid[p])
       THEN /\ decision' = [decision EXCEPT ![p] = "Allow"]
            /\ trace' = [trace EXCEPT ![p] = @ \o <<"IdentityResolved", "Decided">>]
            /\ Goto(p, "args")
       ELSE /\ decision' = [decision EXCEPT ![p] = "Deny"]
            /\ trace' = [trace EXCEPT ![p] =
                            @ \o <<"IdentityResolved", "Decided", "Refused">>]
            /\ LogLiteral(p, "Error: Unauthorized caller", "fail")
    /\ UNCHANGED <<inputs, request, result, exitStatus, calls, stderr, logvars,
                   logState, fs>>

\* uid_t caller_uid = getuid(); if (!is_authorized(caller_uid)) { ... return 1; }
CheckAuthorized(p) ==
    /\ pc[p] = "auth"
    /\ caller_uid' = [caller_uid EXCEPT ![p] = ruid[p]]
    /\ IF is_authorized(ruid[p])
       THEN /\ decision' = [decision EXCEPT ![p] = "Allow"]
            /\ trace' = [trace EXCEPT ![p] = @ \o <<"IdentityResolved", "Decided">>]
            /\ Goto(p, "args")
       ELSE /\ decision' = [decision EXCEPT ![p] = "Deny"]
            /\ trace' = [trace EXCEPT ![p] =
                            @ \o <<"IdentityResolved", "Decided", "Refused">>]
            /\ LogLiteral(p, "Error: Unauthorized caller", "fail")
    /\ UNCHANGED <<inputs, request, result, exitStatus, calls, stderr, logvars,
                   logState, fs>>

\* if (argc < 2) { log_message(...); fprintf(stderr, usage); return 1; }
CheckArgs(p) ==
    /\ pc[p] = "args"
    /\ IF Len(argv[p]) < 2
       THEN LogLiteral(p, "Error: No command specified", "fail")
       ELSE Goto(p, "dispatch")
    /\ UNCHANGED <<inputs, locals, effects, logvars, logState, fs>>

\* The "exec" branch with execute_command calling system() unannounced.
DispatchExecNoIntent(p) ==
    /\ pc[p] = "dispatch"
    /\ argv[p][2] = S_exec
    /\ IF Len(argv[p]) < 3
       THEN /\ LogLiteral(p, "Error: No command to execute specified", "fail")
            /\ UNCHANGED <<request, trace>>
       ELSE /\ request' = [request EXCEPT ![p] = <<"system", argv[p][3]>>]
            /\ Step(p, "RequestParsed")
            /\ Goto(p, "system")
    /\ UNCHANGED <<inputs, caller_uid, decision, result, exitStatus, calls, stderr,
                   logvars, logState, fs>>

\* The "exec" branch of main, up to the first log_message of execute_command.
DispatchExec(p) ==
    /\ pc[p] = "dispatch"
    /\ argv[p][2] = S_exec
    /\ IF Len(argv[p]) < 3
       THEN /\ LogLiteral(p, "Error: No command to execute specified", "fail")
            /\ UNCHANGED <<request, trace>>
       ELSE /\ request' = [request EXCEPT ![p] = <<"system", argv[p][3]>>]
            /\ Step(p, "RequestParsed")
            /\ LogCall(p, "Executing command: %s",
                       snprintf(19, strlen(argv[p][3])), "system")
    /\ UNCHANGED <<inputs, caller_uid, decision, result, exitStatus, calls, stderr,
                   logvars, logState, fs>>

\* The "chmod" branch reading the mode as a decimal number.
DispatchChmodDecimal(p) ==
    /\ pc[p] = "dispatch"
    /\ argv[p][2] = S_chmod
    /\ IF Len(argv[p]) < 4
       THEN /\ LogLiteral(p, "Error: Missing arguments for chmod", "fail")
            /\ UNCHANGED <<request, trace>>
       ELSE LET mode == strtol(argv[p][3], 10)
                path == argv[p][4]
            IN /\ request' = [request EXCEPT ![p] = <<"chmod", path, mode>>]
               /\ Step(p, "RequestParsed")
               /\ LogCall(p, "Modifying permissions for %s to %o",
                          snprintf(30, strlen(path) + NumLen(mode, 8)), "chmod")
    /\ UNCHANGED <<inputs, caller_uid, decision, result, exitStatus, calls, stderr,
                   logvars, logState, fs>>

\* The "chmod" branch with its argument count off by one (argc < 3): with
\* three arguments argv[3] is the NULL that ends argv, read here as no path.
DispatchChmodOffByOne(p) ==
    /\ pc[p] = "dispatch"
    /\ argv[p][2] = S_chmod
    /\ IF Len(argv[p]) < 3
       THEN /\ LogLiteral(p, "Error: Missing arguments for chmod", "fail")
            /\ UNCHANGED <<request, trace>>
       ELSE LET mode == strtol(argv[p][3], 8)
                path == IF Len(argv[p]) >= 4 THEN argv[p][4] ELSE P_empty
            IN /\ request' = [request EXCEPT ![p] = <<"chmod", path, mode>>]
               /\ Step(p, "RequestParsed")
               /\ LogCall(p, "Modifying permissions for %s to %o",
                          snprintf(30, strlen(path) + NumLen(mode, 8)), "chmod")
    /\ UNCHANGED <<inputs, caller_uid, decision, result, exitStatus, calls, stderr,
                   logvars, logState, fs>>

\* The "chmod" branch of main, up to the first log_message of modify_permissions.
DispatchChmod(p) ==
    /\ pc[p] = "dispatch"
    /\ argv[p][2] = S_chmod
    /\ IF Len(argv[p]) < 4
       THEN /\ LogLiteral(p, "Error: Missing arguments for chmod", "fail")
            /\ UNCHANGED <<request, trace>>
       ELSE LET mode == strtol(argv[p][3], 8)
                path == argv[p][4]
            IN /\ request' = [request EXCEPT ![p] = <<"chmod", path, mode>>]
               /\ Step(p, "RequestParsed")
               /\ LogCall(p, "Modifying permissions for %s to %o",
                          snprintf(30, strlen(path) + NumLen(mode, 8)), "chmod")
    /\ UNCHANGED <<inputs, caller_uid, decision, result, exitStatus, calls, stderr,
                   logvars, logState, fs>>

\* The "chown" branch of main, up to the first log_message of change_ownership.
DispatchChown(p) ==
    /\ pc[p] = "dispatch"
    /\ argv[p][2] = S_chown
    /\ IF Len(argv[p]) < 5
       THEN /\ LogLiteral(p, "Error: Missing arguments for chown", "fail")
            /\ UNCHANGED <<request, trace>>
       ELSE LET uid == atoi(argv[p][3])
                gid == atoi(argv[p][4])
                path == argv[p][5]
            IN /\ request' = [request EXCEPT ![p] = <<"chown", path, uid, gid>>]
               /\ Step(p, "RequestParsed")
               /\ LogCall(p, "Changing ownership of %s to UID %d, GID %d",
                          snprintf(36, strlen(path) + NumLen(uid, 10) + NumLen(gid, 10)),
                          "chown")
    /\ UNCHANGED <<inputs, caller_uid, decision, result, exitStatus, calls, stderr,
                   logvars, logState, fs>>

\* The unknown-command branch without its log_message call.
DispatchUnknownSilent(p) ==
    /\ pc[p] = "dispatch"
    /\ argv[p][2] \notin {S_exec, S_chmod, S_chown}
    /\ msg' = [msg EXCEPT ![p] = [text |-> "Error: Unknown command: %s",
                                  len |-> snprintf(23, strlen(argv[p][2]))]]
    /\ pc' = [pc EXCEPT ![p] = "fail"]
    /\ UNCHANGED <<inputs, ret, locals, effects, logvars, logState, fs>>

\* The final else of main: an unknown command.
DispatchUnknown(p) ==
    /\ pc[p] = "dispatch"
    /\ argv[p][2] \notin {S_exec, S_chmod, S_chown}
    /\ LogCall(p, "Error: Unknown command: %s", snprintf(23, strlen(argv[p][2])), "fail")
    /\ UNCHANGED <<inputs, locals, effects, logvars, logState, fs>>

\* execute_command: int result = system(command); and the result's log_message.
System(p) ==
    /\ pc[p] = "system"
    /\ \E r \in SystemResults(request[p][2]) :
          /\ result' = [result EXCEPT ![p] = r]
          /\ LogCall(p, "Command execution result: %d", snprintf(26, NumLen(r, 10)),
                     "return")
    /\ calls' = [calls EXCEPT ![p] = Append(@, request[p])]
    /\ Step(p, "Executed")
    /\ UNCHANGED <<inputs, caller_uid, decision, request, exitStatus, stderr, logvars,
                   logState, fs>>

\* modify_permissions without the log_message of its failure branch.
ChmodFailureUnlogged(p) ==
    /\ pc[p] = "chmod"
    /\ LET path == request[p][2]
           mode == request[p][3]
           r == chmodResult(fs, path, mode)
       IN /\ result' = [result EXCEPT ![p] = r]
          /\ fs' = chmodFs(fs, path, mode)
          /\ IF r # 0
             THEN Goto(p, "return")
             ELSE LogLiteral(p, "Permissions modified successfully", "return")
    /\ calls' = [calls EXCEPT ![p] = Append(@, request[p])]
    /\ Step(p, "Executed")
    /\ UNCHANGED <<inputs, caller_uid, decision, request, exitStatus, stderr, logvars,
                   logState>>

\* modify_permissions: int result = chmod(path, mode); and the log_message of
\* the branch taken.
Chmod(p) ==
    /\ pc[p] = "chmod"
    /\ LET path == request[p][2]
           mode == request[p][3]
           r == chmodResult(fs, path, mode)
       IN /\ result' = [result EXCEPT ![p] = r]
          /\ fs' = chmodFs(fs, path, mode)
          /\ IF r # 0
             THEN LogCall(p, "Failed to modify permissions: %s", snprintf(30, 25), "return")
             ELSE LogLiteral(p, "Permissions modified successfully", "return")
    /\ calls' = [calls EXCEPT ![p] = Append(@, request[p])]
    /\ Step(p, "Executed")
    /\ UNCHANGED <<inputs, caller_uid, decision, request, exitStatus, stderr, logvars,
                   logState>>

\* change_ownership: int result = chown(path, uid, gid); and the log_message
\* of the branch taken.
Chown(p) ==
    /\ pc[p] = "chown"
    /\ LET path == request[p][2]
           uid == request[p][3]
           gid == request[p][4]
           r == chownResult(fs, path, uid, gid)
       IN /\ result' = [result EXCEPT ![p] = r]
          /\ fs' = chownFs(fs, path, uid, gid)
          /\ IF r # 0
             THEN LogCall(p, "Failed to change ownership: %s", snprintf(28, 25), "return")
             ELSE LogLiteral(p, "Ownership changed successfully", "return")
    /\ calls' = [calls EXCEPT ![p] = Append(@, request[p])]
    /\ Step(p, "Executed")
    /\ UNCHANGED <<inputs, caller_uid, decision, request, exitStatus, stderr, logvars,
                   logState>>

\* A dispatcher that calls the primitive a second time when it failed.
ReturnRetrying(p) ==
    /\ pc[p] = "return"
    /\ IF result[p] # 0 /\ Len(calls[p]) < 2
       THEN /\ pc' = [pc EXCEPT ![p] = request[p][1]]
            /\ UNCHANGED <<exitStatus, trace>>
       ELSE /\ exitStatus' = [exitStatus EXCEPT ![p] = ExitCode(result[p])]
            /\ Step(p, "Exit")
            /\ pc' = [pc EXCEPT ![p] = "done"]
    /\ UNCHANGED <<inputs, ret, msg, caller_uid, decision, request, result, calls,
                   stderr, logvars, logState, fs>>

\* return execute_command(...) / modify_permissions(...) / change_ownership(...):
\* main returns the function's result and the process exits with it.
Return(p) ==
    /\ pc[p] = "return"
    /\ exitStatus' = [exitStatus EXCEPT ![p] = ExitCode(result[p])]
    /\ Step(p, "Exit")
    /\ pc' = [pc EXCEPT ![p] = "done"]
    /\ UNCHANGED <<inputs, ret, msg, caller_uid, decision, request, result, calls,
                   stderr, logvars, logState, fs>>

\* fprintf(stderr, ...); return 1; after the log_message of a failure path.
Fail(p) ==
    /\ pc[p] = "fail"
    /\ stderr' = [stderr EXCEPT ![p] = Append(@, StderrLine(msg[p].text))]
    /\ exitStatus' = [exitStatus EXCEPT ![p] = ExitCode(1)]
    /\ Step(p, "Exit")
    /\ pc' = [pc EXCEPT ![p] = "done"]
    /\ UNCHANGED <<inputs, ret, msg, caller_uid, decision, request, result, calls,
                   logvars, logState, fs>>

-----------------------------------------------------------------------------
(* Specifications *)

\* One invocation, any caller, any argv, any state of the log file.
Init == InitWith({1}, Creds, Argvs, LogStates)

Next ==
    \/ \E p \in Procs :
          \/ CheckRoot(p)
          \/ CheckAuthorized(p)
          \/ CheckArgs(p)
          \/ DispatchExec(p)
          \/ DispatchChmod(p)
          \/ DispatchChown(p)
          \/ DispatchUnknown(p)
          \/ System(p)
          \/ Chmod(p)
          \/ Chown(p)
          \/ Return(p)
          \/ Fail(p)
          \/ LogFopen(p)
          \/ LogFprintf(p)
          \/ LogFclose(p)
          \/ LogSyslog(p)
    \/ EnvChange

Spec == Init /\ [][Next]_vars

\* NumProcs concurrent invocations, each refused for its unknown command,
\* sharing a log file that can be opened and written.
InitConc == InitWith(Procs, ConcCreds, ConcArgvs, {"ok"})

NextConc ==
    \E p \in Procs :
       \/ CheckRoot(p)
       \/ CheckAuthorized(p)
       \/ CheckArgs(p)
       \/ DispatchUnknown(p)
       \/ Fail(p)
       \/ LogFopen(p)
       \/ LogFprintf(p)
       \/ LogFclose(p)
       \/ LogSyslog(p)

SpecConc == InitConc /\ [][NextConc]_vars

-----------------------------------------------------------------------------
(* Vocabulary of the properties *)

Done(p) == pc[p] = "done"
AllDone == \A p \in Procs : Done(p)

\* The requested operation was carried out and reported success.
Succeeded(p) == calls[p] # <<>> /\ result[p] = 0

\* The entries of invocation p in the log file and in syslog, by number.
FileEntries(p) == { logfile[i].n : i \in { j \in 1 .. Len(logfile) : logfile[j].pid = p } }
SyslogEntries(p) == { syslogv[i].n : i \in { j \in 1 .. Len(syslogv) : syslogv[j].pid = p } }

\* Entry n of invocation p stands in the file as one unbroken line, the
\* pieces written for it following one another from position i on.
RECURSIVE LineFrom(_, _, _, _)
LineFrom(i, p, n, off) ==
    /\ i <= Len(logfile)
    /\ logfile[i].pid = p
    /\ logfile[i].n = n
    /\ logfile[i].off = off
    /\ \/ off + logfile[i].len = logfile[i].total
       \/ LineFrom(i + 1, p, n, off + logfile[i].len)
LineIntact(p, n) == \E i \in 1 .. Len(logfile) : LineFrom(i, p, n, 0)

IsPrefix(pre, s) == Len(pre) <= Len(s) /\ SubSeq(s, 1, Len(pre)) = pre

\* Position of the first occurrence of event e in invocation p's run, 0 if none.
Pos(p, e) ==
    IF \E i \in 1 .. Len(trace[p]) : trace[p][i] = e
    THEN CHOOSE i \in 1 .. Len(trace[p]) :
            trace[p][i] = e /\ \A j \in 1 .. i - 1 : trace[p][j] # e
    ELSE 0
Happened(p, e) == Pos(p, e) > 0

\* A policy of the kind the specification asks for: root is the one allowed
\* caller, "true" the one allowed command, /tmp/ the one allowed path prefix.
AllowedUids == {0}
AllowedCommands == {C_true}
AllowedPathPrefixes == { <<"/","t","m","p","/">> }
PathAllowed(path) == \E pre \in AllowedPathPrefixes : IsPrefix(pre, path)

\* The lines main prints on stderr on its failure paths.
MainStderrLines ==
    { "Error: JanetHelper must be run as root", "Error: Unauthorized caller",
      "Usage: %s <command> [args...]", "Usage: %s exec <command>",
      "Usage: %s chmod <mode> <path>", "Usage: %s chown <uid> <gid> <path>",
      "Error: Unknown command: %s" }

-----------------------------------------------------------------------------
(* Properties *)

\* C1: a caller whose real uid is not on the allow-list is never allowed and
\* never reaches system(), chmod() or chown(), whatever it requests.
C1_UnlistedCallerDenied ==
    \A p \in Procs :
       ruid[p] \notin AllowedUids => decision[p] # "Allow" /\ calls[p] = <<>>

\* C2: an "exec" request whose command is not allow-listed spawns nothing and
\* exits with status 1, whoever the caller is.
C2_UnlistedCommandDenied ==
    \A p \in Procs :
       (/\ Len(argv[p]) >= 3
        /\ argv[p][2] = S_exec
        /\ argv[p][3] \notin AllowedCommands)
       => /\ calls[p] = <<>>
          /\ Done(p) => exitStatus[p] = 1

\* C3: a chmod or chown request of a non-privileged caller on a path outside
\* the allow-listed prefixes never calls chmod()/chown() and exits with 1.
C3_PathOutsidePrefixDenied ==
    \A p \in Procs :
       (/\ ruid[p] # 0
        /\ \/ Len(argv[p]) >= 4 /\ argv[p][2] = S_chmod /\ ~PathAllowed(argv[p][4])
           \/ Len(argv[p]) >= 5 /\ argv[p][2] = S_chown /\ ~PathAllowed(argv[p][5]))
       => /\ calls[p] = <<>>
          /\ Done(p) => exitStatus[p] = 1

\* C4: the decision is taken only after the identity is resolved and the
\* request is parsed, and a privileged operation is executed only after a
\* decision of Allow; the run ends with Exit.
C4_DecidedAfterParsed ==
    \A p \in Procs :
       /\ Happened(p, "Decided") =>
             /\ Happened(p, "IdentityResolved")
             /\ Pos(p, "IdentityResolved") < Pos(p, "Decided")
             /\ Happened(p, "RequestParsed")
             /\ Pos(p, "RequestParsed") < Pos(p, "Decided")
       /\ Happened(p, "Executed") =>
             /\ Happened(p, "Decided")
             /\ Pos(p, "Decided") < Pos(p, "Executed")
             /\ decision[p] = "Allow"
       /\ Done(p) => trace[p][Len(trace[p])] = "Exit"

\* C5: the exit status is 0 only when the requested operation was executed
\* and succeeded.
C5_ZeroOnlyOnSuccess ==
    \A p \in Procs : Done(p) /\ exitStatus[p] = 0 => Succeeded(p)

\* C6: a successful run exits with 0 and every other run with exactly 1.
C6_ExitZeroOrOne ==
    \A p \in Procs :
       Done(p) => exitStatus[p] = (IF Succeeded(p) THEN 0 ELSE 1)

C8_ConcurrentEntriesIntact ==
    AllDone => \A p \in Procs : \A n \in 1 .. nlog[p] : LineIntact(p, n)

\* C9: no invocation returns from the dispatcher or exits without having
\* reported to the audit log: at least one log_message call was made, its
\* entry is in syslog, and in the log file when no fopen or write failed.
C9_EveryExitLogged ==
    \A p \in Procs :
       pc[p] \in {"return", "fail", "done"}
       => /\ nlog[p] >= 1
          /\ SyslogEntries(p) = 1 .. nlog[p]
          /\ ~logFault[p] => FileEntries(p) = 1 .. nlog[p]

\* C9 witness: an unknown command was refused with exit status 1 and its
\* entry is in the log file.
C9_Witness ==
    \E p \in Procs :
       /\ Done(p)
       /\ exitStatus[p] = 1
       /\ stderr[p] = <<"Error: Unknown command: %s">>
       /\ \E i \in 1 .. Len(logfile) :
             logfile[i].pid = p /\ logfile[i].text = "Error: Unknown command: %s"

\* C10: when the log file could not be opened or written, every entry still
\* went to syslog, the failure was reported on stderr, and the request was
\* still carried out.
C10_LogFailureReported ==
    \A p \in Procs :
       Done(p) /\ logFault[p]
       => /\ SyslogEntries(p) = 1 .. nlog[p]
          /\ \E i \in 1 .. Len(stderr[p]) : stderr[p][i] \notin MainStderrLines
          /\ request[p] # <<>> => calls[p] = <<request[p]>>

\* The syntax the specification asks of a request's fields: the mode a
\* non-empty string of octal digits, uid and gid non-empty strings of decimal
\* digits, the path non-empty.
IsNumeral(s, base) == s # <<>> /\ \A i \in 1 .. Len(s) : IsDigit(s[i], base)
Malformed(a) ==
    \/ /\ Len(a) >= 4
       /\ a[2] = S_chmod
       /\ ~IsNumeral(a[3], 8) \/ a[4] = <<>>
    \/ /\ Len(a) >= 5
       /\ a[2] = S_chown
       /\ ~IsNumeral(a[3], 10) \/ ~IsNumeral(a[4], 10) \/ a[5] = <<>>

\* C11: an argv with a malformed field (a mode that is not octal, a uid or gid
\* that is not a non-negative integer, an empty path) builds no request, makes
\* no privileged call and ends as a usage error.
C11_MalformedRejected ==
    \A p \in Procs :
       Malformed(argv[p])
       => /\ request[p] = <<>>
          /\ calls[p] = <<>>
          /\ Done(p) => exitStatus[p] = 1 /\ stderr[p] # <<>>

\* The argv that name no request: no verb, an unknown verb, or a verb with
\* fewer arguments than it requires (exec 1, chmod 2, chown 3).
Verbs == {S_exec, S_chmod, S_chown}
Required(verb) == IF verb = S_exec THEN 1 ELSE IF verb = S_chmod THEN 2 ELSE 3
UsageErrorArgv(a) ==
    \/ Len(a) < 2
    \/ a[2] \notin Verbs
    \/ Len(a) < 2 + Required(a[2])
Primitive(verb) ==
    IF verb = S_exec THEN "system" ELSE IF verb = S_chmod THEN "chmod" ELSE "chown"

\* C12: an argv that names no request never reaches system(), chmod() or
\* chown() and ends with one usage or error line on stderr and exit status 1;
\* every other argv, once past the checks of the caller, becomes the request
\* of its verb and no other.
C12_UsageErrorOrOneVariant ==
    \A p \in Procs :
       IF UsageErrorArgv(argv[p])
       THEN /\ request[p] = <<>>
            /\ calls[p] = <<>>
            /\ Done(p) => /\ exitStatus[p] = 1
                          /\ Len(stderr[p]) = 1
                          /\ stderr[p][1] \in MainStderrLines
       ELSE /\ request[p] # <<>> => request[p][1] = Primitive(argv[p][2])
            /\ Done(p) /\ euid[p] = 0 => request[p] # <<>>

\* C12 witness: a chmod with its path missing has ended as a usage error.
C12_Witness ==
    \E p \in Procs :
       /\ Done(p)
       /\ argv[p] = <<Prog, S_chmod, M_755>>
       /\ stderr[p] = <<"Usage: %s chmod <mode> <path>">>
       /\ exitStatus[p] = 1
       /\ calls[p] = <<>>

\* A chmod (chown) request of invocation p was executed and reported success.
ChmodSucceeded(p) == Succeeded(p) /\ calls[p][1][1] = "chmod"
ChownSucceeded(p) == Succeeded(p) /\ calls[p][1][1] = "chown"

\* C13 (as stated): after a successful chmod the permission bits of the path
\* are exactly the mode asked for, for every mode the front end accepts.
C13_ExactMode ==
    \A p \in Procs :
       ChmodSucceeded(p) => fs[argv[p][4]].mode = strtol(argv[p][3], 8)

\* C13 (amended): after a successful chmod the permission bits of the path
\* are the low twelve bits (mode & 07777) of the mode asked for, which is the
\* mode itself when it is at most 07777.
C13_ModeMasked ==
    \A p \in Procs :
       ChmodSucceeded(p) =>
          LET asked == strtol(argv[p][3], 8)
          IN /\ fs[argv[p][4]].mode = asked % 4096
             /\ asked \in 0 .. 4095 => fs[argv[p][4]].mode = asked

\* C13 witness: chmod 10755 /tmp/f succeeded and /tmp/f has mode 0755.
C13_Witness ==
    \E p \in Procs :
       /\ Done(p)
       /\ exitStatus[p] = 0
       /\ argv[p] = <<Prog, S_chmod, M_10755, P_tmp_f>>
       /\ ChmodSucceeded(p)
       /\ fs[P_tmp_f].mode = 493

\* C14: after a successful chown the owner and group of the path are exactly
\* the uid and gid asked for, for every argument the front end accepts.
C14_ExactOwner ==
    \A p \in Procs :
       ChownSucceeded(p) =>
          /\ fs[argv[p][5]].uid = atoi(argv[p][3])
          /\ fs[argv[p][5]].gid = atoi(argv[p][4])

\* C15: the identity the authorization check is given is the real uid of the
\* invocation, whatever its effective uid and its argv: two runs with the
\* same real uid present the same identity.
C15_IdentityIsRealUid ==
    \A p \in Procs :
       Happened(p, "IdentityResolved") => caller_uid[p] = ruid[p]

\* C15 witness: a user's run of the setuid-root binary was authorized under
\* the user's own uid.
C15_Witness ==
    \E p \in Procs :
       /\ Happened(p, "Decided")
       /\ ruid[p] = 501
       /\ euid[p] = 0
       /\ caller_uid[p] = 501

\* C16: the log file is append-only: every step leaves what was in it as a
\* prefix of what is in it afterwards.
C16_AppendOnly == [][IsPrefix(logfile, logfile')]_vars

\* C16 witness: two concurrent invocations have both written to the file.
C16_Witness ==
    \E i, j \in 1 .. Len(logfile) : i < j /\ logfile[i].pid # logfile[j].pid

\* C17: an invocation calls at most one privileged primitive, at most once,
\* and none at all when it ended on one of main's failure paths.
C17_NoRetry ==
    \A p \in Procs :
       /\ Len(calls[p]) <= 1
       /\ pc[p] = "fail" \/ stderr[p] # <<>> => calls[p] = <<>>

\* C17 witness: a chown failed and the run ended after that one call.
C17_Witness ==
    \E p \in Procs :
       /\ Done(p)
       /\ Len(calls[p]) = 1
       /\ calls[p][1][1] = "chown"
       /\ result[p] = -1
       /\ exitStatus[p] = 255

\* C18: an invocation whose effective uid is not 0 never reaches the
\* authorization check, the argument parsing or a privileged primitive, and
\* ends with 'must be run as root' logged and printed and exit status 1.
C18_NotRootStopsFirst ==
    \A p \in Procs :
       euid[p] # 0
       => /\ decision[p] = "none"
          /\ request[p] = <<>>
          /\ calls[p] = <<>>
          /\ \A i \in 1 .. Len(trace[p]) : trace[p][i] \in {"Start", "Exit"}
          /\ Done(p) =>
                /\ exitStatus[p] = 1
                /\ stderr[p] = <<"Error: JanetHelper must be run as root">>
                /\ nlog[p] = 1
                /\ \E i \in 1 .. Len(syslogv) :
                      /\ syslogv[i].pid = p
                      /\ syslogv[i].text = "Error: JanetHelper must be run as root"

\* C18 witness: a run that is not setuid root has ended, whatever its argv.
C18_Witness ==
    \E p \in Procs :
       /\ Done(p)
       /\ euid[p] = 501
       /\ argv[p] = <<Prog, S_exec, C_rm_rf>>
       /\ exitStatus[p] = 1

\* The entries each dispatcher function writes before and after its primitive.
IntentText(fn) ==
    IF fn = "system" THEN "Executing command: %s"
    ELSE IF fn = "chmod" THEN "Modifying permissions for %s to %o"
    ELSE "Changing ownership of %s to UID %d, GID %d"
ResultTexts(fn) ==
    IF fn = "system" THEN {"Command execution result: %d"}
    ELSE IF fn = "chmod"
         THEN {"Failed to modify permissions: %s", "Permissions modified successfully"}
    ELSE {"Failed to change ownership: %s", "Ownership changed successfully"}

\* Where entry n of invocation p stands in syslog and where its line starts
\* in the log file (0 when it is not there).
SyslogPos(p, n) ==
    IF \E i \in 1 .. Len(syslogv) : syslogv[i].pid = p /\ syslogv[i].n = n
    THEN CHOOSE i \in 1 .. Len(syslogv) : syslogv[i].pid = p /\ syslogv[i].n = n
    ELSE 0
FilePos(p, n) ==
    IF \E i \in 1 .. Len(logfile) : LineFrom(i, p, n, 0)
    THEN CHOOSE i \in 1 .. Len(logfile) : LineFrom(i, p, n, 0)
    ELSE 0

\* C19: a primitive that ran has its intent entry already logged (in syslog,
\* and in the file when no fopen or write failed), and once the function has
\* returned its result entry follows the intent entry.
C19_IntentThenResult ==
    \A p \in Procs :
       calls[p] # <<>> =>
          LET fn == calls[p][1][1]
          IN /\ SyslogPos(p, 1) > 0
             /\ syslogv[SyslogPos(p, 1)].text = IntentText(fn)
             /\ ~logFault[p] =>
                   FilePos(p, 1) > 0 /\ logfile[FilePos(p, 1)].text = IntentText(fn)
             /\ pc[p] \in {"return", "done"} =>
                   /\ SyslogPos(p, 2) > SyslogPos(p, 1)
                   /\ syslogv[SyslogPos(p, 2)].text \in ResultTexts(fn)
                   /\ ~logFault[p] =>
                         /\ FilePos(p, 2) > FilePos(p, 1)
                         /\ logfile[FilePos(p, 2)].text \in ResultTexts(fn)

\* C19 witness: an exec has finished with both entries in the log file.
C19_Witness ==
    \E p \in Procs :
       /\ Done(p)
       /\ ~logFault[p]
       /\ calls[p] # <<>>
       /\ calls[p][1][1] = "system"
       /\ FilePos(p, 1) > 0
       /\ FilePos(p, 2) > FilePos(p, 1)

====
